---- MODULE Spec2Model ----
(***************************************************************************)
(* Model of serial_commander: SerialCommunication (serial_communication.py) *)
(* and parse_response (utils/command_parser.py).                           *)
(*                                                                         *)
(* The program is single threaded.  Every step of the model is one         *)
(* statement group of the running method; the device, the operating system *)
(* and the caller are the environment, whose choices (what arrives on the  *)
(* line, which call raises, which method is called next) are drawn with \E.*)
(*                                                                         *)
(* Text is a sequence of tokens: the words of a line, separated by single  *)
(* spaces, the line terminator LINE_TERMINATOR, and BAD for a byte         *)
(* sequence that is not valid UTF-8.                                       *)
(***************************************************************************)
EXTENDS Integers, Sequences, FiniteSets, TLC

VARIABLES
    pc,             \* position of the running method ("idle": no method runs)
    caller,         \* who called open_serial: "top", "enter", "ensure", "recover"
    serial_port,    \* self.serial_port: "None" or "Serial"
    is_open,        \* self.serial_port.is_open
    handles,        \* physical handles this instance created that are open
    last_response,  \* self.last_response: NoneText or the text stored
    max_retries,    \* self.max_retries
    retry_count,    \* retry_count of the running send_command frame
    context,        \* context argument of the running frame
    inbuf,          \* bytes buffered on the input side, not yet read
    rx,             \* chunks the device has still to send for this attempt
    response,       \* local `response` of _read_response
    elapsed,        \* poll intervals slept in _read_response
    scope,          \* "out" or "in": inside a `with` block of this instance
    result,         \* what the last send_command call returned, "none" while running
    raised,         \* the method whose exception reached the caller, or "none"
    writes,         \* command writes of the running send_command call
    sleeps,         \* retry-delay sleeps of the running send_command call
    physOpens,      \* physical opens of the running public operation
    last,           \* outcome of the latest attempt of the running call
    fault,          \* exception class caught by send_command, or "none"
    faultWrites,    \* writes at the moment the fault was caught
    faultSleeps,    \* retry-delay sleeps at the moment the fault was caught
    recoverCloses,  \* close_serial calls made by fault recovery in this call
    reopens,        \* open_serial calls made by fault recovery in this call
    reads,          \* the non-empty texts _read_response returned in this call
    before,         \* last_response when the running call started
    op,             \* the public method called last
    raw,            \* the bytes read_all() returned in the running attempt
    dropped,        \* the clear-input of the running attempt discarded bytes
    warned,         \* the running call has logged at warning or error level
    config,         \* ESP32_RESPONSE_PATTERNS as esp32_config.json holds it now
    seen            \* what parse_response returned for the text in `response`

vars == << pc, caller, serial_port, is_open, handles, last_response, max_retries,
           retry_count, context, inbuf, rx, response, elapsed, scope, result,
           raised, writes, sleeps, physOpens, last, fault, faultWrites,
           faultSleeps, recoverCloses, reopens, reads, before, op, raw, dropped,
           warned, config, seen >>

-----------------------------------------------------------------------------
(* Bounds *)

MaxRetriesBound == 1
TimeoutTicks == 2
\* lines of a raw text handed to parse_response on its own
MaxLines == 2

\* time.sleep(0.05) of _read_response: one poll interval, the unit of elapsed
PollTicks == 1

-----------------------------------------------------------------------------
(* Text *)

LINE_TERMINATOR == "\n"
BAD == "<invalid-utf8>"

\* the value of last_response that stands for Python's None
NoneText == << "<None>" >>

\* variant: errors='replace', every undecodable sequence becomes U+FFFD
decodeReplace(bytes) ==
    [i \in 1..Len(bytes) |-> IF bytes[i] = BAD THEN "<U+FFFD>" ELSE bytes[i]]

\* bytes.decode('utf-8', errors='ignore'): undecodable bytes are dropped
decode(bytes) == SelectSeq(bytes, LAMBDA b : b # BAD)

\* `tok in text`
Contains(text, tok) == \E i \in 1..Len(text) : text[i] = tok

\* response.split('\n'), each line stripped
RECURSIVE SplitFrom(_, _, _)
SplitFrom(text, i, cur) ==
    IF i > Len(text) THEN << cur >>
    ELSE IF text[i] = "\n" THEN << cur >> \o SplitFrom(text, i + 1, << >>)
    ELSE SplitFrom(text, i + 1, Append(cur, text[i]))

SplitLines(text) == SplitFrom(text, 1, << >>)

\* variant: the prefix is compared without regard to case
IsCandidateAnyCase(line) ==
    Len(line) >= 2 /\ line[1] \in { "RESPONSE:", "response:" }

\* line.startswith("RESPONSE: ")
IsCandidate(line) == Len(line) >= 2 /\ line[1] = "RESPONSE:"

-----------------------------------------------------------------------------
(* Response grammar and classifier *)

\* ESP32_RESPONSE_PATTERNS of esp32_config.json, in declaration order.  An
\* entry is the response type (the key) and its pattern: the literal prefix,
\* the word the pattern spells after it, and one capture group per field; a
\* group captures one token and does not restrict its characters.
ESP32_RESPONSE_PATTERNS ==
    << [type |-> "GPIO_OUTPUT", word |-> "GPIO_OUTPUT", groups |-> 2],
       [type |-> "GPIO_INPUT",  word |-> "GPIO_INPUT",  groups |-> 3],
       [type |-> "PWM_OUTPUT",  word |-> "PWM_OUTPUT",  groups |-> 2],
       [type |-> "DAC_OUTPUT",  word |-> "DAC_OUTPUT",  groups |-> 2],
       [type |-> "ADC_INPUT",   word |-> "ADC_INPUT",   groups |-> 3],
       [type |-> "GEN_SIGNAL",  word |-> "GEN_SIGNAL",  groups |-> 3],
       [type |-> "CLOSED_LOOP", word |-> "CLOSED_LOOP", groups |-> 2] >>

\* esp32_config.json after an edit: the pattern under PWM_OUTPUT spells
\* GPIO_OUTPUT, so two entries match the same line
ShadowedPatterns ==
    << [type |-> "PWM_OUTPUT",  word |-> "GPIO_OUTPUT", groups |-> 2],
       [type |-> "GPIO_OUTPUT", word |-> "GPIO_OUTPUT", groups |-> 2] >>

\* the same two entries declared in the other order
ReorderedPatterns ==
    << [type |-> "GPIO_OUTPUT", word |-> "GPIO_OUTPUT", groups |-> 2],
       [type |-> "PWM_OUTPUT",  word |-> "GPIO_OUTPUT", groups |-> 2] >>

\* what load_esp32config() can find in the file
Grammars == { ESP32_RESPONSE_PATTERNS, ShadowedPatterns, ReorderedPatterns }

\* re.match(pattern, line): the pattern matches a prefix of the line
Matches(pattern, line) ==
    /\ Len(line) >= 2 + pattern.groups
    /\ line[1] = "RESPONSE:"
    /\ line[2] = pattern.word

\* match.groups()
Groups(pattern, line) == SubSeq(line, 3, 2 + pattern.groups)

\* the tokens int() accepts, with their values
IntValue == ("1" :> 1) @@ ("2" :> 2) @@ ("4" :> 4) @@ ("512" :> 512)
IsInt(tok) == tok \in DOMAIN IntValue
\* the tokens float() accepts
IsFloat(tok) == IsInt(tok) \/ tok \in {"3.14"}

None == [kind |-> "None"]
ValueError == [kind |-> "ValueError"]
NoMatchHere == [kind |-> "nomatch"]

\* the if/elif chain of parse_response: the dict built for a matched line, or
\* the ValueError int()/float() raises
Coerce(type, g) ==
    CASE type \in {"GPIO_OUTPUT", "PWM_OUTPUT", "DAC_OUTPUT"} ->
            IF IsInt(g[1])
            THEN [kind |-> "dict", type |-> type, pin |-> IntValue[g[1]],
                  status |-> g[2]]
            ELSE ValueError
      [] type = "GPIO_INPUT" ->
            IF IsInt(g[1])
            THEN [kind |-> "dict", type |-> type, pin |-> IntValue[g[1]],
                  value |-> g[2], status |-> g[3]]
            ELSE ValueError
      [] type = "ADC_INPUT" ->
            IF IsInt(g[1]) /\ IsInt(g[2])
            THEN [kind |-> "dict", type |-> type, pin |-> IntValue[g[1]],
                  value |-> IntValue[g[2]], status |-> g[3]]
            ELSE ValueError
      [] type = "GEN_SIGNAL" ->
            IF IsInt(g[1]) /\ IsFloat(g[2])
            THEN [kind |-> "dict", type |-> type, signal_type |-> IntValue[g[1]],
                  value |-> g[2], status |-> g[3]]
            ELSE ValueError
      [] type = "CLOSED_LOOP" ->
            IF IsInt(g[1])
            THEN [kind |-> "dict", type |-> type, id |-> IntValue[g[1]],
                  status |-> g[2]]
            ELSE ValueError

\* variant: the loop over the grammar does not stop at the first match, the
\* last entry that matches wins
RECURSIVE MatchPatternsLast(_, _)
MatchPatternsLast(line, j) ==
    IF j > Len(config) THEN NoMatchHere
    ELSE LET later == MatchPatternsLast(line, j + 1)
         IN  IF later.kind # "nomatch" THEN later
             ELSE IF Matches(config[j], line)
                  THEN Coerce(config[j].type, Groups(config[j], line))
                  ELSE NoMatchHere

\* the inner loop over the grammar load_esp32config() returned, from entry j
\* on
RECURSIVE MatchPatterns(_, _)
MatchPatterns(line, j) ==
    IF j > Len(config) THEN NoMatchHere
    ELSE IF Matches(config[j], line)
         THEN Coerce(config[j].type, Groups(config[j], line))
         ELSE MatchPatterns(line, j + 1)

\* the outer loop over the valid response lines, from line i on
RECURSIVE ParseLines(_, _)
ParseLines(valid, i) ==
    IF i > Len(valid) THEN None
    ELSE LET r == MatchPatterns(valid[i], 1)
         IN  IF r.kind # "nomatch" THEN r ELSE ParseLines(valid, i + 1)

\* parse_response(response, logger)
parse_response(text) ==
    IF text = << >> THEN None
    ELSE LET valid_responses == SelectSeq(SplitLines(text), IsCandidate)
         IN  IF valid_responses = << >> THEN None
             ELSE ParseLines(valid_responses, 1)

\* variant: the status token is compared with "ok"
StatusLower(parsed) == parsed.status = "ok"

\* variant: any status token passes
StatusPresent(parsed) == parsed.status # ""

\* the test of the status token in _parse_response
StatusOk(parsed) == parsed.status = "OK"

\* SerialCommunication._parse_response: a boolean, or the exception that
\* parse_response raised
_parse_response(text) ==
    LET parsed == parse_response(text)
    IN  IF parsed.kind = "ValueError" THEN "ValueError"
        ELSE IF parsed.kind = "dict" THEN
                 (IF StatusOk(parsed) THEN "True" ELSE "False")
        ELSE "False"

\* what parse_response logs, at warning or error level, before it returns
\* None; "" when it returns without such a log
ParseFailureLog(text) ==
    IF text = << >> THEN "No response provided for parsing."
    ELSE LET valid_responses == SelectSeq(SplitLines(text), IsCandidate)
         IN  IF valid_responses = << >>
             THEN "No valid response lines found in the input"
             ELSE IF ParseLines(valid_responses, 1).kind = "None"
                  THEN "No valid response matched"
                  ELSE ""

\* logging levels that count as a report of a failure
Alarming(level) == level \in { "warning", "error" }

\* outcomes of load_esp32config() while a text is classified: the file is
\* read for every candidate line, and reading it can raise
ConfigLoads(text) ==
    IF SelectSeq(SplitLines(text), IsCandidate) = << >>
    THEN { "ok" }
    ELSE { "ok", "raises" }

\* variant: a status other than OK is reported at debug level
ParseLogLevelQuiet(parsed) ==
    IF parsed.kind = "dict" THEN "debug" ELSE "error"

\* the highest level at which an attempt logs the outcome of its
\* classification: _parse_response for a dict or None, the `except Exception`
\* clause of send_command for a ValueError
ParseLogLevel(parsed) ==
    IF parsed.kind = "dict"
    THEN (IF StatusOk(parsed) THEN "debug" ELSE "warning")
    ELSE "error"

-----------------------------------------------------------------------------
(* The device and the caller *)

Frame(tokens) == tokens \o << LINE_TERMINATOR >>

\* a device that has one more token to send at every poll of a read
Stream(tok) == [i \in 1..(TimeoutTicks + 1) |-> << tok >>]

\* what the device sends after a command, as the chunks that arrive
Scripts ==
    { << >>,
      << Frame(<< "RESPONSE:", "GPIO_OUTPUT", "4", "OK" >>) >>,
      << Frame(<< "RESPONSE:", "GPIO_OUTPUT", "4", "ERROR" >>) >>,
      << Frame(<< "RESPONSE:", "GPIO_OUTPUT", "x", "OK" >>) >>,
      << Frame(<< "RESPONSE:", "UNKNOWN", "1", "OK" >>) >>,
      << Frame(<< "boot" >>), Frame(<< "RESPONSE:", "ADC_INPUT", "2", "512", "OK" >>) >>,
      << Frame(<< "boot" >>),
         << BAD >> \o Frame(<< "RESPONSE:", "GPIO_OUTPUT", "4", "OK" >>) >>,
      << << "boot", LINE_TERMINATOR, "RESPONSE:", "GPIO_OUTPUT" >>,
         Frame(<< "4", "OK" >>) >>,
      Stream("log"),
      Stream(BAD) }

\* bytes left on the input side by earlier traffic, or arriving late
StaleInputs == { << >>, Frame(<< "stale" >>) }

\* the context argument: absent, an object with log_response, or one whose
\* log_response raises
Contexts == { "None", "logs", "raises" }

\* the exceptions an operation on the serial line raises: serial.SerialException
\* or, from the operating system call under it, one that is not a
\* SerialException
IOFaults == { "SerialException", "OSError" }
IOOutcomes == { "ok" } \cup IOFaults

-----------------------------------------------------------------------------
(* Decisions of the code *)

\* variant: open_serial without its test
AlwaysOpen == TRUE

\* open_serial: `self.serial_port is None or not self.serial_port.is_open`
NeedsOpen == serial_port = "None" \/ ~is_open

\* close_serial: `self.serial_port and self.serial_port.is_open`
CanClose == serial_port # "None" /\ is_open

\* variant: reset_input_buffer() leaves the buffer as it is
KeepInput(buf) == buf

\* _clear_pending_data: reset_input_buffer()
ResetInput(buf) == << >>

\* variant: the loop goes on for two polls past the timeout
InTimeLate(t) == t < TimeoutTicks + 2

\* _read_response: the loop condition `time.time() - start_time < TIMEOUT`
InTime(t) == t < TimeoutTicks

\* variant: the terminator must come after "RESPONSE:"
CompleteInOrder(text) ==
    \E i, j \in 1..Len(text) :
        i < j /\ text[i] = "RESPONSE:" /\ text[j] = LINE_TERMINATOR

\* _read_response: `"RESPONSE:" in response and LINE_TERMINATOR in response`
Complete(text) == Contains(text, "RESPONSE:") /\ Contains(text, LINE_TERMINATOR)

\* variant: the last permitted retry is refused
RetryAllowedOffByOne(rc) == rc + 1 < max_retries

\* send_command: `retry_count < self.max_retries` after a failed parse
RetryAllowed(rc) == rc < max_retries

\* variant: one retry more than max_retries
ShouldRetryInclusive(rc) == rc <= max_retries

\* _handle_retry: `if retry_count < self.max_retries`
ShouldRetry(rc) == rc < max_retries

\* variant: the response is appended to what was stored
StoreAppend(old, text) == old \o text

\* send_command: `self.last_response = response`
StoreResponse(old, text) == text

-----------------------------------------------------------------------------
(* Control transfer *)

OpenPcs == { "open_ctor", "open_setup", "open_drain", "open_read" }

Goto(p) ==
    /\ pc' = p
    /\ UNCHANGED << result, raised, fault, faultWrites, faultSleeps >>

\* `return val` of the outermost send_command frame (every frame returns what
\* the frame it called returned)
Return(val) ==
    /\ pc' = "idle"
    /\ result' = val
    /\ UNCHANGED << raised, fault, faultWrites, faultSleeps >>

\* an exception leaves a public method that has no handler for it
Propagate(method) ==
    /\ pc' = "idle"
    /\ raised' = method
    /\ UNCHANGED << result, fault, faultWrites, faultSleeps >>

\* the except clauses of send_command for an exception raised on the line
Caught(kind) ==
    /\ fault' = kind
    /\ warned' = TRUE
    /\ faultWrites' = writes
    /\ faultSleeps' = sleeps
    /\ raised' = raised
    /\ IF kind = "SerialException"
       THEN pc' = "recover" /\ result' = result
       ELSE pc' = "idle" /\ result' = "False"

\* an exception raised at the current position travels to the nearest handler
\* (the handler inside _handle_serial_exception logs an error)
Throw(kind) ==
    IF pc \in OpenPcs /\ caller = "top"
    THEN Propagate("open_serial") /\ warned' = warned
    ELSE IF pc \in OpenPcs /\ caller = "enter"
    THEN Propagate("__enter__") /\ warned' = warned
    ELSE IF pc \in OpenPcs /\ caller = "recover"
    THEN Return("False") /\ warned' = TRUE
    ELSE Caught(kind)

\* a public method starts: what the previous one reported is forgotten, and
\* the locals of the frames that returned are gone
Begin ==
    /\ pc = "idle"
    /\ rx' = << >>
    /\ response' = << >>
    /\ elapsed' = 0
    /\ fault' = "none"
    /\ faultWrites' = 0
    /\ faultSleeps' = 0
    /\ writes' = 0
    /\ sleeps' = 0
    /\ physOpens' = 0
    /\ recoverCloses' = 0
    /\ reopens' = 0
    /\ reads' = { }
    /\ before' = last_response
    /\ last' = [kind |-> "unread"]
    /\ raw' = << >>
    /\ dropped' = FALSE
    /\ warned' = FALSE
    /\ UNCHANGED << config, seen >>

ghost == << writes, sleeps, physOpens, recoverCloses, reopens, reads, before, last, op >>
wire == << inbuf, rx, response, elapsed, raw >>
port == << serial_port, is_open, handles >>
\* the configuration file and the record of classifications
files == << config, seen >>

-----------------------------------------------------------------------------
(* Initial state: SerialCommunication.__init__ *)

Init ==
    /\ pc = "idle"
    /\ caller = "top"
    /\ serial_port = "None"
    /\ is_open = FALSE
    /\ handles = 0
    /\ last_response = NoneText
    /\ max_retries \in 0..MaxRetriesBound
    /\ retry_count = 0
    /\ context = "None"
    /\ inbuf = << >>
    /\ rx = << >>
    /\ response = << >>
    /\ elapsed = 0
    /\ scope = "out"
    /\ result = "none"
    /\ raised = "none"
    /\ writes = 0
    /\ sleeps = 0
    /\ physOpens = 0
    /\ last = [kind |-> "unread"]
    /\ fault = "none"
    /\ faultWrites = 0
    /\ faultSleeps = 0
    /\ recoverCloses = 0
    /\ reopens = 0
    /\ reads = { }
    /\ before = NoneText
    /\ op = "none"
    /\ raw = << >>
    /\ dropped = FALSE
    /\ warned = FALSE
    /\ config = ESP32_RESPONSE_PATTERNS
    /\ seen = << >>

-----------------------------------------------------------------------------
(* open_serial *)

\* a caller invokes open_serial()
open_serial ==
    /\ Begin
    /\ op' = "open_serial"
    /\ caller' = "top"
    /\ pc' = IF NeedsOpen THEN "open_ctor" ELSE "idle"
    /\ result' = "none"
    /\ raised' = "none"
    /\ retry_count' = 0
    /\ context' = "None"
    /\ UNCHANGED << port, inbuf, last_response, max_retries, scope >>

\* open_serial returns to whoever called it
OpenReturn ==
    /\ warned' = warned
    /\ CASE caller = "top" -> Goto("idle") /\ scope' = scope
         [] caller = "enter" -> Goto("idle") /\ scope' = "in"
         [] caller = "ensure" -> Goto("clear") /\ scope' = scope
         [] caller = "recover" -> Return("False") /\ scope' = scope

\* serial.Serial(...): the physical open
OpenCtor ==
    /\ pc = "open_ctor"
    /\ \E o \in { "ok", "SerialException" } :
         IF o = "ok"
         THEN /\ serial_port' = "Serial"
              /\ is_open' = TRUE
              /\ handles' = handles + 1
              /\ physOpens' = physOpens + 1
              /\ Goto("open_setup")
              /\ warned' = warned
         ELSE /\ Throw(o)
              /\ UNCHANGED << port, physOpens >>
    /\ UNCHANGED << caller, last_response, max_retries, retry_count, context, wire,
                    scope, writes, sleeps, recoverCloses, reopens, reads, before,
                    last, op, dropped, files >>

\* dtr = False, rts = False, the boot delay, reset_input_buffer and
\* reset_output_buffer
OpenSetup ==
    /\ pc = "open_setup"
    /\ \E o \in IOOutcomes :
         IF o = "ok"
         THEN /\ inbuf' = << >>
              /\ Goto("open_drain")
              /\ warned' = warned
         ELSE /\ Throw(o)
              /\ inbuf' = inbuf
    /\ UNCHANGED << caller, port, last_response, max_retries, retry_count, context,
                    rx, response, elapsed, raw, scope, ghost, dropped, files >>

\* `while self.serial_port.in_waiting`: the device may have sent more
OpenDrain ==
    /\ pc = "open_drain"
    /\ \E o \in { "nothing", "pending" } \cup IOFaults :
         CASE o = "nothing" ->
                /\ inbuf = << >>
                /\ OpenReturn
                /\ inbuf' = inbuf
           [] o = "pending" ->
                /\ inbuf' = inbuf \o Frame(<< "boot" >>)
                /\ Goto("open_read")
                /\ scope' = scope
                /\ warned' = warned
           [] OTHER ->
                /\ Throw(o)
                /\ UNCHANGED << inbuf, scope >>
    /\ UNCHANGED << caller, port, last_response, max_retries, retry_count, context,
                    rx, response, elapsed, raw, ghost, dropped, files >>

\* read_all() and time.sleep(0.1) of the drain loop
OpenRead ==
    /\ pc = "open_read"
    /\ \E o \in IOOutcomes :
         IF o = "ok"
         THEN /\ inbuf' = << >>
              /\ Goto("open_drain")
              /\ warned' = warned
         ELSE /\ Throw(o)
              /\ inbuf' = inbuf
    /\ UNCHANGED << caller, port, last_response, max_retries, retry_count, context,
                    rx, response, elapsed, raw, scope, ghost, dropped, files >>

-----------------------------------------------------------------------------
(* close_serial, __enter__, __exit__ *)

CloseOutcomes == { "ok", "error" }

\* the body of close_serial when serial_port.close() ends with outcome o; a
\* close that raises leaves is_open as it was
CloseBody(o) ==
    IF CanClose /\ o = "ok"
    THEN /\ is_open' = FALSE
         /\ handles' = handles - 1
         /\ serial_port' = serial_port
    ELSE UNCHANGED port

\* whether close_serial raises, given the outcome of serial_port.close()
CloseRaises(o) == CanClose /\ o = "error"

\* a caller invokes close_serial()
close_serial ==
    /\ Begin
    /\ op' = "close_serial"
    /\ \E o \in CloseOutcomes :
         /\ CloseBody(o)
         /\ raised' = IF CloseRaises(o) THEN "close_serial" ELSE "none"
    /\ pc' = "idle"
    /\ result' = "none"
    /\ caller' = "top"
    /\ retry_count' = 0
    /\ context' = "None"
    /\ UNCHANGED << inbuf, last_response, max_retries, scope >>

\* `with sender:` calls __enter__, which calls open_serial()
Enter ==
    /\ Begin
    /\ op' = "__enter__"
    /\ scope = "out"
    /\ caller' = "enter"
    /\ IF NeedsOpen
       THEN pc' = "open_ctor" /\ scope' = scope
       ELSE pc' = "idle" /\ scope' = "in"
    /\ result' = "none"
    /\ raised' = "none"
    /\ retry_count' = 0
    /\ context' = "None"
    /\ UNCHANGED << port, inbuf, last_response, max_retries >>

\* the with block is left, normally or by an exception of its body: __exit__
\* calls close_serial()
Exit ==
    /\ Begin
    /\ op' = "__exit__"
    /\ scope = "in"
    /\ scope' = "out"
    /\ \E o \in CloseOutcomes :
         /\ CloseBody(o)
         /\ raised' = IF CloseRaises(o) THEN "__exit__" ELSE "none"
    /\ pc' = "idle"
    /\ result' = "none"
    /\ caller' = "top"
    /\ retry_count' = 0
    /\ context' = "None"
    /\ UNCHANGED << inbuf, last_response, max_retries >>

-----------------------------------------------------------------------------
(* send_command *)

\* a caller invokes send_command(command, 0, context)
send_command ==
    /\ Begin
    /\ op' = "send_command"
    /\ pc' = "ensure"
    /\ result' = "none"
    /\ raised' = "none"
    /\ retry_count' = 0
    /\ context' \in Contexts
    /\ inbuf' \in (IF is_open THEN StaleInputs ELSE { << >> })
    /\ caller' = "top"
    /\ UNCHANGED << port, last_response, max_retries, scope >>

\* _ensure_connection
Ensure ==
    /\ pc = "ensure"
    /\ IF NeedsOpen
       THEN Goto("open_ctor") /\ caller' = "ensure"
       ELSE Goto("clear") /\ caller' = caller
    /\ warned' = warned
    /\ UNCHANGED << port, last_response, max_retries, retry_count, context, wire,
                    scope, ghost, dropped, files >>

\* _clear_pending_data: reset_input_buffer()
Clear ==
    /\ pc = "clear"
    /\ \E o \in IOOutcomes :
         IF o = "ok"
         THEN /\ inbuf' = ResetInput(inbuf)
              /\ dropped' = (inbuf # << >>)
              /\ Goto("write")
              /\ warned' = warned
         ELSE /\ Throw(o)
              /\ UNCHANGED << inbuf, dropped >>
    /\ UNCHANGED << caller, port, last_response, max_retries, retry_count, context,
                    rx, response, elapsed, raw, scope, ghost, files >>

\* _send_command: write, flush, settle delay; the device then chooses its
\* answer.  _read_response starts with an empty response.
Write ==
    /\ pc = "write"
    /\ \E o \in IOOutcomes :
         IF o = "ok"
         THEN /\ writes' = writes + 1
              /\ rx' \in Scripts
              /\ response' = << >>
              /\ elapsed' = 0
              /\ raw' = << >>
              /\ Goto("read")
              /\ warned' = warned
         ELSE /\ Throw(o)
              /\ UNCHANGED << writes, rx, response, elapsed, raw >>
    /\ UNCHANGED << caller, port, last_response, max_retries, retry_count, context,
                    inbuf, scope, sleeps, physOpens, recoverCloses, reopens, reads,
                    before, last, op, dropped, files >>

\* one pass of the loop of _read_response
Read ==
    /\ pc = "read"
    /\ IF ~InTime(elapsed)
       THEN /\ Goto("classify")
            /\ reads' = IF response = << >> THEN reads ELSE reads \cup { response }
            /\ UNCHANGED << inbuf, rx, response, elapsed, raw, warned >>
       ELSE \E o \in IOOutcomes, arrives \in BOOLEAN :
              /\ arrives => rx # << >>
              /\ IF o = "ok"
                 THEN LET waiting == inbuf \o (IF arrives THEN Head(rx) ELSE << >>)
                          text == response \o decode(waiting)
                      IN  /\ rx' = IF arrives THEN Tail(rx) ELSE rx
                          /\ inbuf' = << >>
                          /\ response' = text
                          /\ raw' = raw \o waiting
                          /\ warned' = warned
                          /\ IF waiting # << >> /\ Complete(text)
                             THEN /\ Goto("classify")
                                  /\ elapsed' = elapsed
                                  /\ reads' = reads \cup { text }
                             ELSE /\ Goto("read")
                                  /\ elapsed' = elapsed + PollTicks
                                  /\ reads' = reads
                 ELSE /\ ~arrives
                      /\ Throw(o)
                      /\ UNCHANGED << inbuf, rx, response, elapsed, raw, reads >>
    /\ UNCHANGED << caller, port, last_response, max_retries, retry_count, context,
                    scope, writes, sleeps, physOpens, recoverCloses, reopens,
                    before, last, op, dropped, files >>

\* _handle_retry(command, retry_count)
HandleRetry ==
    IF ShouldRetry(retry_count) THEN Goto("retry") ELSE Return("False")

\* send_command from the test of the response to its return.  The grammar is
\* read from esp32_config.json while the response is classified; here the
\* file holds ESP32_RESPONSE_PATTERNS whenever it can be read.
Classify ==
    /\ pc = "classify"
    /\ dropped' = FALSE
    /\ IF response = << >>
       THEN /\ HandleRetry
            /\ last' = [kind |-> "empty"]
            /\ last_response' = last_response
            /\ warned' = TRUE
       ELSE IF context = "raises"
       THEN /\ Return("False")
            /\ last' = [kind |-> "callback"]
            /\ last_response' = last_response
            /\ warned' = TRUE
       ELSE /\ last_response' = StoreResponse(last_response, response)
            /\ \E load \in ConfigLoads(response) :
                 IF load = "raises"
                 THEN /\ last' = [kind |-> "ConfigError"]
                      /\ Return("False")
                      /\ warned' = TRUE
                 ELSE /\ last' = parse_response(response)
                      /\ warned' = (warned \/ Alarming(ParseLogLevel(parse_response(response))))
                      /\ LET parse_result == _parse_response(response)
                         IN  CASE parse_result = "ValueError" -> Return("False")
                               [] parse_result = "False" /\ RetryAllowed(retry_count) ->
                                      HandleRetry
                               [] OTHER -> Return(parse_result)
    /\ UNCHANGED << caller, port, max_retries, retry_count, context, wire, scope,
                    writes, sleeps, physOpens, recoverCloses, reopens, reads,
                    before, op, files >>

\* _handle_retry: the warning, time.sleep(retry_delay), during which bytes of
\* the earlier answer can still arrive, then
\* send_command(command, retry_count + 1, context) with its own context
\* parameter, which send_command did not pass
Retry ==
    /\ pc = "retry"
    /\ sleeps' = sleeps + 1
    /\ retry_count' = retry_count + 1
    /\ context' = "None"
    /\ last' = [kind |-> "unread"]
    /\ warned' = TRUE
    /\ inbuf' \in StaleInputs
    /\ Goto("ensure")
    /\ UNCHANGED << caller, port, last_response, max_retries, rx, response, elapsed,
                    raw, scope, writes, physOpens, recoverCloses, reopens, reads,
                    before, op, dropped, files >>

\* _handle_serial_exception: close_serial(), then open_serial(), any exception
\* of the two caught and logged; send_command then returns False.  When
\* close_serial returns the session is Closed, so the test of open_serial
\* passes and the physical open is next.
Recover ==
    /\ pc = "recover"
    /\ recoverCloses' = recoverCloses + 1
    /\ \E o \in CloseOutcomes :
         /\ CloseBody(o)
         /\ IF CloseRaises(o)
            THEN /\ Return("False")
                 /\ UNCHANGED << reopens, caller >>
                 /\ warned' = TRUE
            ELSE /\ reopens' = reopens + 1
                 /\ caller' = "recover"
                 /\ Goto("open_ctor")
                 /\ warned' = warned
    /\ UNCHANGED << last_response, max_retries, retry_count, context, wire, scope,
                    writes, sleeps, physOpens, reads, before, last, op, dropped, files >>

-----------------------------------------------------------------------------
(* Specification *)

Next ==
    \/ open_serial
    \/ OpenCtor
    \/ OpenSetup
    \/ OpenDrain
    \/ OpenRead
    \/ close_serial
    \/ Enter
    \/ Exit
    \/ send_command
    \/ Ensure
    \/ Clear
    \/ Write
    \/ Read
    \/ Classify
    \/ Retry
    \/ Recover

Spec == Init /\ [][Next]_vars

\* the running method always takes its next step
LiveSpec == Spec /\ WF_vars(Next)

-----------------------------------------------------------------------------
(* parse_response on its own: one engine hands raw texts to parse_response, *)
(* the same text up to twice as two attempts of a transaction do, while    *)
(* esp32_config.json can be rewritten between two calls                     *)

\* the lines a raw text is made of
Lines ==
    { << "boot" >>,
      << "response:", "GPIO_OUTPUT", "4", "OK" >>,
      << "RESPONSE:", "UNKNOWN", "1", "OK" >>,
      << "RESPONSE:", "GPIO_OUTPUT", "4", "OK" >>,
      << "RESPONSE:", "GPIO_OUTPUT", "x", "OK" >>,
      << "RESPONSE:", "ADC_INPUT", "2", "512", "ERROR" >> }

RECURSIVE JoinLines(_)
JoinLines(ls) ==
    IF ls = << >> THEN << >> ELSE Frame(Head(ls)) \o JoinLines(Tail(ls))

\* the raw texts: up to MaxLines terminated lines
Texts == { JoinLines(ls) : ls \in UNION { [1..n -> Lines] : n \in 0..MaxLines } }

\* the state of SerialCommunication, which parse_response does not touch
engine == << pc, caller, serial_port, is_open, handles, last_response,
             max_retries, retry_count, context, inbuf, rx, elapsed, scope,
             result, raised, writes, sleeps, physOpens, fault, faultWrites,
             faultSleeps, recoverCloses, reopens, reads, before, op, raw,
             dropped, warned >>

\* a read hands a new raw text over
Receive ==
    /\ response' \in Texts
    /\ seen' = << >>
    /\ last' = [kind |-> "unread"]
    /\ UNCHANGED << config, engine >>

\* the file is rewritten
EditConfig ==
    /\ config' \in Grammars \ { config }
    /\ UNCHANGED << response, seen, last, engine >>

\* parse_response(response, logger) is called and returns
Parse ==
    /\ Len(seen) < 2
    /\ last' = parse_response(response)
    /\ seen' = Append(seen, parse_response(response))
    /\ UNCHANGED << response, config, engine >>

ClassifierNext ==
    \/ Receive
    \/ EditConfig
    \/ Parse

ClassifierSpec == Init /\ [][ClassifierNext]_vars

-----------------------------------------------------------------------------
(* Claims *)

\* a send_command call has returned
Returned == pc = "idle" /\ op = "send_command" /\ result # "none"

\* the latest attempt classified its response with status OK
LastAttemptOk == last.kind = "dict" /\ last.status = "OK"

\* C1: send_command returns True if and only if the last attempt it performed
\* read a non-empty response that classified successfully with status token
\* exactly "OK"; in every other case it returns False.
C1_TrueIffLastAttemptOk ==
    Returned =>
        /\ result \in { "True", "False" }
        /\ result = "True" <=> LastAttemptOk

C1_Witness == Returned /\ result = "True" /\ writes = 2 /\ LastAttemptOk

\* C2: a call in which every read returns empty text and no fault occurs makes
\* exactly max_retries + 1 writes and max_retries retry-delay sleeps, one
\* between each two consecutive writes, and returns False.
C2_EmptyReadsRetryBudget ==
    /\ (op = "send_command" /\ pc # "idle") =>
           /\ sleeps = retry_count
           /\ writes \in { retry_count, retry_count + 1 }
    /\ (Returned /\ fault = "none" /\ reads = { } /\ last.kind = "empty") =>
           /\ writes = max_retries + 1
           /\ sleeps = max_retries
           /\ result = "False"

C2_Witness ==
    /\ Returned
    /\ fault = "none"
    /\ reads = { }
    /\ last.kind = "empty"
    /\ max_retries = MaxRetriesBound
    /\ writes = MaxRetriesBound + 1

\* the latest attempt's response failed classification (parse_response gave
\* None) or classified with a status other than OK
LastAttemptFailed ==
    \/ last.kind = "None"
    \/ last.kind = "dict" /\ last.status # "OK"

\* C3: an attempt whose response fails classification or has a status other
\* than OK is followed by another attempt exactly when the retry count is
\* below max_retries; a call never makes more than max_retries + 1 writes, and
\* at retry count max_retries it returns False.
C3_RetryWhileBelowMax ==
    /\ writes <= max_retries + 1
    /\ pc = "retry" => retry_count < max_retries
    /\ (Returned /\ LastAttemptFailed) =>
           /\ retry_count = max_retries
           /\ result = "False"

C3_Witness ==
    /\ Returned
    /\ LastAttemptFailed
    /\ retry_count = MaxRetriesBound
    /\ writes = MaxRetriesBound + 1

\* C4: after a transport-level fault in a send_command call the engine has
\* closed the session and attempted exactly one reopen, and the call returns
\* False with no write and no retry-delay sleep after the fault.
C4_FaultClosesAndReopensOnce ==
    (Returned /\ fault # "none") =>
        /\ recoverCloses = 1
        /\ reopens = 1
        /\ result = "False"
        /\ writes = faultWrites
        /\ sleeps = faultSleeps

\* C5: a matched line whose field cannot be coerced is handled like any other
\* classification failure: the call gives up on it only at retry count
\* max_retries.
C5_CoercionFailureIsRetried ==
    (Returned /\ last.kind = "ValueError") => retry_count = max_retries

\* C6: after every send_command call returns, last_response holds raw text
\* that was read during that call.
C6_HoldsTextOfThisCall == Returned => last_response \in reads

\* C6, amended: after a send_command call returns, last_response is either
\* what it was before the call or exactly one raw text read during the call;
\* after a call that returns True it is the text read by the last attempt.
C6_UnchangedOrTextOfThisCall ==
    Returned =>
        /\ last_response # before => last_response \in reads
        /\ reads = { } => last_response = before
        /\ result = "True" => last_response = response

C6_Witness ==
    /\ Returned
    /\ reads = { }
    /\ last_response # NoneText
    /\ last_response = before

\* C7: at most one physical handle of the instance is open; the physical open
\* is reached only while the session is Closed, so open_serial on an Open
\* session opens nothing and two consecutive opens open once.
C7_AtMostOneHandle ==
    /\ handles <= 1
    /\ pc = "open_ctor" => handles = 0
    /\ (pc = "idle" /\ op = "open_serial" /\ raised = "none") =>
           handles = 1 /\ physOpens <= 1

C7_Witness ==
    /\ pc = "idle"
    /\ op = "open_serial"
    /\ raised = "none"
    /\ physOpens = 0
    /\ handles = 1

\* C8: close() never fails its caller, also when called from __exit__.
C8_CloseNeverRaises == raised \notin { "close_serial", "__exit__" }

\* C9: no physical handle is open once the with block has been left, whether
\* __enter__ raised or __exit__ ran.
C9_NoHandleAfterScope ==
    (pc = "idle" /\ (op = "__exit__" \/ (op = "__enter__" /\ raised = "__enter__")))
        => handles = 0

\* C10: every send_command call eventually returns.
C10_CallReturns == (op = "send_command" /\ pc # "idle") ~> (pc = "idle")

\* C11: _read_response always ends: a pass of its loop that does not end the
\* read advances the clock by one poll interval, and the read is over no later
\* than the timeout plus one poll interval after it started, whatever the
\* device sends: nothing, bytes at every poll that never complete a frame, or
\* bytes that cannot be decoded.
C11_ReadEndsByTimeout ==
    /\ [](pc = "read" => elapsed <= TimeoutTicks)
    /\ [](pc = "classify" => elapsed <= TimeoutTicks + PollTicks)
    /\ [][(pc = "read" /\ pc' = "read") => elapsed' = elapsed + PollTicks]_vars

C11_Witness ==
    /\ pc = "classify"
    /\ elapsed = TimeoutTicks
    /\ rx # << >>
    /\ response = [i \in 1..TimeoutTicks |-> "log"]

\* C12: parse_response scans the candidate lines in their order and, for each,
\* the grammar entries in declaration order; what it returns is the outcome
\* of the first (line, entry) pair whose pattern matches, whatever later lines
\* and later entries are, so of two entries that match a line the one
\* declared first wins.
C12_FirstPairWins ==
    [][Len(seen') > Len(seen) =>
        LET cands == SelectSeq(SplitLines(response),
                               LAMBDA l : Len(l) >= 2 /\ l[1] = "RESPONSE:")
            pairs == { p \in (1..Len(cands)) \X (1..Len(config)) :
                         Matches(config[p[2]], cands[p[1]]) }
            first == CHOOSE p \in pairs :
                         \A q \in pairs :
                             p[1] < q[1] \/ (p[1] = q[1] /\ p[2] <= q[2])
        IN  last' = IF pairs = { } THEN None
                    ELSE Coerce(config[first[2]].type,
                                Groups(config[first[2]], cands[first[1]]))]_vars

C12_Witness ==
    /\ Len(seen) = 1
    /\ config = ShadowedPatterns
    /\ response = JoinLines(<< << "RESPONSE:", "GPIO_OUTPUT", "4", "OK" >>,
                               << "RESPONSE:", "ADC_INPUT", "2", "512", "ERROR" >> >>)
    /\ last.kind = "dict"
    /\ last.type = "PWM_OUTPUT"

\* C13: parse_response fails (returns None) when no trimmed line begins with
\* the exact prefix "RESPONSE: ", reporting that no valid line was found, and
\* when such lines exist but none matches an entry, reporting that none
\* matched; lines without the prefix neither produce nor change the result.
C13_NoValidLinesOrNoMatch ==
    [][Len(seen') > Len(seen) =>
        LET cands == SelectSeq(SplitLines(response),
                               LAMBDA l : Len(l) >= 2 /\ l[1] = "RESPONSE:")
            matched == \E i \in 1..Len(cands), j \in 1..Len(config) :
                           Matches(config[j], cands[i])
        IN  /\ (response # << >> /\ cands = << >>) =>
                   /\ last' = None
                   /\ ParseFailureLog(response) =
                          "No valid response lines found in the input"
            /\ (cands # << >> /\ ~matched) =>
                   /\ last' = None
                   /\ ParseFailureLog(response) = "No valid response matched"
            /\ last' = parse_response(JoinLines(cands))]_vars

C13_Witness ==
    /\ seen = << None >>
    /\ config = ESP32_RESPONSE_PATTERNS
    /\ response = JoinLines(<< << "boot" >>,
                               << "RESPONSE:", "UNKNOWN", "1", "OK" >> >>)

\* C14: two classifications of the same raw text by one engine give the same
\* result.
C14_SameTextSameResult == Len(seen) = 2 => seen[1] = seen[2]

\* C15: with max_retries = 0, a call whose first read classifies with status
\* OK returns True after exactly one command write and no retry-delay sleep.
C15_OkFirstTry ==
    (Returned /\ max_retries = 0 /\ LastAttemptOk) =>
        /\ result = "True"
        /\ writes = 1
        /\ sleeps = 0

C15_Witness ==
    /\ Returned
    /\ max_retries = 0
    /\ LastAttemptOk
    /\ result = "True"
    /\ writes = 1

\* C16: bytes that are not valid UTF-8 never end the read or the call: the
\* read goes on with the bytes that decode, and when the bytes of an attempt
\* are an undecodable sequence followed by a complete OK frame, send_command
\* returns True on that attempt.
C16_CorruptBytesThenOkFrame ==
    /\ pc = "classify" => response = SelectSeq(raw, LAMBDA b : b # BAD)
    /\ ( /\ Returned
         /\ fault = "none"
         /\ last.kind \notin { "callback", "ConfigError" }
         /\ Len(raw) >= 6
         /\ SubSeq(raw, Len(raw) - 5, Len(raw)) =
                << BAD >> \o Frame(<< "RESPONSE:", "GPIO_OUTPUT", "4", "OK" >>) )
        => result = "True"

C16_Witness ==
    /\ Returned
    /\ result = "True"
    /\ Contains(raw, BAD)

\* C17: when a read receives bytes that are not valid UTF-8, accumulation
\* restarts from empty: the text the read returns holds nothing that was
\* received before the undecodable bytes.
C17_RestartsAfterCorruptBytes ==
    (pc = "classify" /\ Contains(raw, BAD)) =>
        LET k == CHOOSE i \in 1..Len(raw) :
                     raw[i] = BAD /\ \A j \in (i + 1)..Len(raw) : raw[j] # BAD
        IN  \E m \in (k + 1)..(Len(raw) + 1) : response = SubSeq(raw, m, Len(raw))

\* C18: every attempt runs ensure-open, clear-input, write, read in this
\* order: the write happens only while the session is Open and after the input
\* side was emptied, the read only after the write, and no byte that was
\* buffered when the attempt cleared its input is part of a text read.
C18_AttemptOrder ==
    /\ pc = "write" => (serial_port = "Serial" /\ is_open /\ inbuf = << >>)
    /\ pc \in { "ensure", "clear", "write" } => writes = retry_count
    /\ pc \in { "read", "classify" } => (writes = retry_count + 1 /\ is_open)
    /\ ~Contains(response, "stale")
    /\ \A t \in reads : ~Contains(t, "stale")

C18_Witness ==
    /\ pc = "classify"
    /\ dropped
    /\ retry_count = 1
    /\ response = Frame(<< "RESPONSE:", "GPIO_OUTPUT", "4", "OK" >>)

\* C19: _read_response returns before the timeout exactly when the text it
\* accumulated holds both "RESPONSE:" and the terminator, in either order; a
\* terminator that came before "RESPONSE:" completes the frame, and the
\* truncated line the read then returns is stored as last_response and
\* classified, not treated as an empty response.
C19_ReturnsEarlyIffComplete ==
    /\ pc = "classify" =>
           (elapsed < TimeoutTicks <=>
               (Contains(response, "RESPONSE:") /\ Contains(response, LINE_TERMINATOR)))
    /\ ( /\ op = "send_command"
         /\ pc \in { "retry", "idle" }
         /\ fault = "none"
         /\ response # << >>
         /\ Contains(response, "RESPONSE:")
         /\ Contains(response, LINE_TERMINATOR) )
        => (last.kind \notin { "unread", "empty" } /\
            (last.kind # "callback" => last_response = response))

C19_Witness ==
    /\ pc = "retry"
    /\ elapsed < TimeoutTicks
    /\ response = << "boot", LINE_TERMINATOR, "RESPONSE:", "GPIO_OUTPUT" >>
    /\ last_response = response
    /\ last = None

\* C20: send_command never lets an exception reach its caller: whatever fault
\* open, clear, write, read, classification, configuration loading, the
\* context callback, a retry attempt or the reopen of fault recovery raises,
\* the call returns a boolean, and before it returns False it has logged at
\* warning or error level.
C20_NeverRaisesAndLogs ==
    /\ op = "send_command" => raised = "none"
    /\ Returned => result \in { "True", "False" }
    /\ (Returned /\ result = "False") => warned

C20_Witness ==
    /\ Returned
    /\ result = "False"
    /\ last.kind = "ConfigError"
    /\ retry_count = 1
    /\ warned

====
